---- MODULE Spec2Model ----
(***************************************************************************)
(* Model of src/main.ts of the bake action: the main phase (build          *)
(* orchestration), the post phase (summary generation and temp-directory   *)
(* cleanup) and the buildRefs resolver, with the persisted state that      *)
(* carries values from the main process to the post process.               *)
(*                                                                         *)
(* Optional values follow JavaScript's undefined: <<>> is undefined and    *)
(* <<v>> is the defined value v.  Texts are sequences of one-character     *)
(* strings.  External calls (toolkit, subprocesses, file system) are       *)
(* inputs: their outcome is drawn with \E in the step that awaits them.    *)
(* The diagnostic groups of lines 33-73 catch their own errors and change  *)
(* no state; they are not steps of the model.  The st_ variables are the   *)
(* fields of stateHelper: a setter call writes the field, and the post     *)
(* process reads what the main process wrote, or the default.              *)
(***************************************************************************)
EXTENDS Integers, Sequences, FiniteSets, TLC

\* ------------------------------------------------------------------ bounds
MaxStderr == 2
MaxExit == 1
MaxRefId == 2
MaxMetaRefs == 2
MaxTime == 2

\* ------------------------------------------------------------- value sets
Undefined == <<>>
Some(v) == <<v>>

Chars == {"a", "b", " ", "\n"}
Texts == UNION {[1..k -> Chars] : k \in 0..MaxStderr}
ExitCodes == 0..MaxExit
RefIds == 1..MaxRefId
Times == 0..MaxTime
Builders == {"bX", "bY"}
Drivers == {"docker-container", "cloud"}
\* what inputs.builder can hold: not given (empty) or a builder's name
BuilderInputs == {""} \cup Builders
\* the metadata file after the execution pass: absent, or the references it embeds
MetaRefSeqs == UNION {[1..k -> RefIds] : k \in 0..MaxMetaRefs}
MetaFiles == {Undefined} \cup {Some(r) : r \in MetaRefSeqs}
\* the history store: per record identifier, no record or (builder, creation time)
HistRecords == [builder : Builders, ctime : Times]
Stores == [RefIds -> {Undefined} \cup {Some(r) : r \in HistRecords}]
EmptyStore == [i \in RefIds |-> Undefined]
\* DOCKER_BUILD_NO_SUMMARY: unset, or its text
NoSummaryEnv == {Undefined, Some(""), Some("true"), Some("false"), Some("yes")}
Outcomes == {"ok", "throw"}

VARIABLES
    pc,                \* position of the running phase
    inputsBuilder,     \* inputs.builder of the main process
    startedTime,       \* startedTime of the main process
    st_inputs,         \* persisted: Inputs
    st_tmpDir,         \* persisted: temp-directory path ("" when never set)
    st_builder,        \* persisted: Builder
    st_bakeDefinition, \* persisted: BakeDefinition
    st_buildRefs,      \* persisted: BuildRefs
    printExit,         \* exit code of the print pass
    res,               \* result of the execution pass, in scope of its callback
    execObs,           \* what the execution pass returned: non-zero exit, stderr non-empty
    err,               \* the deferred error of the main phase
    metaFile,          \* the metadata file as read after the execution pass
    refsDir,           \* the history store as read by the scan
    currentBuilder,    \* the builder name the scan uses
    refs,              \* what buildRefs returned
    mainEnd,           \* how the main phase ended
    failedMsg,         \* the message the run was failed with
    noSummary,         \* DOCKER_BUILD_NO_SUMMARY in the post process's environment
    postEnd,           \* how the post phase ended
    calls,             \* the external calls of the running process, in order
    writes,            \* the persisted fields the running process has set, in order
    execCalls,         \* the build-engine invocations of the main process, in order
    postArgs,          \* the arguments of the post process's summary calls, in order
    warnings,          \* core.warning messages of the running process
    infos              \* core.info messages of the running process

vars == <<pc, inputsBuilder, startedTime, st_inputs, st_tmpDir, st_builder,
          st_bakeDefinition, st_buildRefs, printExit, res, execObs, err, metaFile,
          refsDir, currentBuilder, refs, mainEnd, failedMsg, noSummary, postEnd, calls,
          writes, execCalls, postArgs, warnings, infos>>

persisted == <<st_inputs, st_tmpDir, st_builder, st_bakeDefinition, st_buildRefs>>
execVars == <<printExit, res, execObs, err>>
refVars == <<metaFile, refsDir, currentBuilder, refs>>
postVars == <<noSummary, postEnd>>
traceVars == <<writes, execCalls, postArgs>>

\* ------------------------------------------------------------ text helpers
Min(S) == CHOOSE x \in S : \A y \in S : x <= y
Max(S) == CHOOSE x \in S : \A y \in S : x >= y

\* \s of the regular expression, and the characters String.trim removes
IsSpace(c) == c \in {" ", "\n"}
\* . of the regular expression: any character but a line terminator
IsDot(c) == c # "\n"

\* /(.*)\s*$/ matches at p: dots from p up to some k, then white space to the end
RegexMatchesAt(s, p) ==
    \E k \in (p - 1)..Len(s) :
        /\ \A i \in p..k : IsDot(s[i])
        /\ \A i \in (k + 1)..Len(s) : IsSpace(s[i])

\* s.match(/(.*)\s*$/)?.[0]: the text of the leftmost match, which runs to the end
RegexMatch0(s) ==
    LET starts == {p \in 1..(Len(s) + 1) : RegexMatchesAt(s, p)}
    IN  IF starts = {} THEN Undefined ELSE Some(SubSeq(s, Min(starts), Len(s)))

\* String.prototype.trim
Trim(s) ==
    LET keep == {i \in 1..Len(s) : ~IsSpace(s[i])}
    IN  IF keep = {} THEN <<>> ELSE SubSeq(s, Min(keep), Max(keep))

\* ?.trim()
OptTrim(m) == IF m = Undefined THEN Undefined ELSE Some(Trim(m[1]))

\* a ?? b
Coalesce(m, d) == IF m = Undefined THEN d ELSE m[1]

UnknownError == <<"unknown error">>

\* the text after "buildx bake failed with: "
ErrMessage(stderr) == Coalesce(OptTrim(RegexMatch0(stderr)), UnknownError)

\* variant: either condition alone declares the failure
IsFailureOr(r) == Len(r.stderr) > 0 \/ r.exitCode # 0
\* res.stderr.length > 0 && res.exitCode != 0
IsFailure(r) == Len(r.stderr) > 0 /\ r.exitCode # 0

\* ------------------------------------------------------- toolkit helpers
\* toolkit.buildxBake.resolveMetadata(): the metadata document, when the file exists
resolveMetadata(file) == file

\* toolkit.buildxBake.resolveRefs(): the references the metadata embeds, when it has any
resolveRefs(file) ==
    IF file = Undefined \/ file[1] = <<>> THEN Undefined ELSE file

\* the keys of a response in iteration order
RECURSIVE KeysInOrder(_)
KeysInOrder(S) ==
    IF S = {} THEN <<>> ELSE <<Min(S)>> \o KeysInOrder(S \ {Min(S)})

\* Buildx.refs({dir, builderName, since}): the records of the store made by that
\* builder at or after since, keyed by reference
BuildxRefs(store, opts) ==
    {i \in DOMAIN store :
        /\ store[i] # Undefined
        /\ store[i][1].builder = opts.builderName
        /\ store[i][1].ctime >= opts.since}

\* variant: the scan is not limited to the records made since the start
RefsOptsNoSince(b, since) == [builderName |-> b, since |-> 0]
\* the options buildRefs hands to Buildx.refs
RefsOpts(b, since) == [builderName |-> b, since |-> since]

\* Util.parseBool: Go's strconv.ParseBool; any text it does not list throws
parseBool(str) ==
    CASE str \in {"1", "t", "T", "true", "TRUE", "True"} -> "true"
      [] str \in {"0", "f", "F", "false", "FALSE", "False"} -> "false"
      [] OTHER -> "throw"

\* a JavaScript string used as a condition
TruthyText(t) == t # Undefined /\ t[1] # ""

\* a JavaScript array or object, or undefined, used as a condition
Truthy(v) == v # Undefined

Call(name) == calls' = Append(calls, name)

\* a stateHelper setter is called for a field
Write(fld) == writes' = Append(writes, fld)

\* lines 117-118: buildCmd.args, computed once from the inputs and the definition and
\* read by both passes; its content is left opaque
BuildArgs == <<"buildCmd.args">>

\* an Exec call of the build command: its arguments, working directory (inputs.workdir)
\* and environment (process.env with BUILDX_BAKE_GIT_AUTH_TOKEN)
Invocation(args) ==
    [args |-> args, cwd |-> "inputs.workdir", env |-> "BUILDX_BAKE_GIT_AUTH_TOKEN"]

\* the arguments of one call of the summary chain
SummaryCall(name, refsArg, inputsArg, definitionArg, outcome) ==
    [call |-> name, refs |-> refsArg, inputs |-> inputsArg, bakeDefinition |-> definitionArg,
     outcome |-> outcome]

\* the main phase's promise settles: rejected with msg, or failed by core.setFailed
EndMain(kind, msg) ==
    /\ pc' = "main_done"
    /\ mainEnd' = kind
    /\ failedMsg' = msg

\* -------------------------------------------------------------------- Init
Init ==
    /\ pc = "main_start"
    /\ inputsBuilder = ""
    /\ startedTime = 0
    /\ st_inputs = Undefined
    /\ st_tmpDir = ""
    /\ st_builder = Undefined
    /\ st_bakeDefinition = Undefined
    /\ st_buildRefs = <<>>
    /\ printExit = Undefined
    /\ res = Undefined
    /\ execObs = Undefined
    /\ err = Undefined
    /\ metaFile = Undefined
    /\ refsDir = EmptyStore
    /\ currentBuilder = ""
    /\ refs = Undefined
    /\ mainEnd = "running"
    /\ failedMsg = Undefined
    /\ noSummary = Undefined
    /\ postEnd = "running"
    /\ calls = <<>>
    /\ writes = <<>>
    /\ execCalls = <<>>
    /\ postArgs = <<>>
    /\ warnings = {}
    /\ infos = {}

\* -------------------------------------------------------------- main phase
\* lines 24-28: startedTime, getInputs, setInputs
MainStart ==
    /\ pc = "main_start"
    /\ \E t \in Times, b \in BuilderInputs, o \in Outcomes :
        /\ startedTime' = t
        /\ IF o = "throw"
           THEN /\ EndMain("inputs", Some(<<"getInputs failed">>))
                /\ UNCHANGED <<inputsBuilder, st_inputs, writes>>
           ELSE /\ inputsBuilder' = b
                /\ st_inputs' = Some([builder |-> b])
                /\ Write("inputs")
                /\ pc' = "preflight"
                /\ UNCHANGED <<mainEnd, failedMsg>>
    /\ UNCHANGED <<st_tmpDir, st_builder, st_bakeDefinition, st_buildRefs>>
    /\ UNCHANGED <<execVars, refVars, postVars, calls, execCalls, postArgs, warnings, infos>>

\* variant: the temp-directory path is not persisted after the preflight check
PreflightNoTmpDir ==
    /\ pc = "preflight"
    /\ Call("isAvailable")
    /\ \E available \in BOOLEAN :
        IF ~available
        THEN EndMain("preflight", Some(<<"Docker buildx is required">>))
        ELSE /\ pc' = "version"
             /\ UNCHANGED <<mainEnd, failedMsg>>
    /\ UNCHANGED <<st_tmpDir, inputsBuilder, startedTime, st_inputs, st_builder,
                   st_bakeDefinition, st_buildRefs>>
    /\ UNCHANGED <<execVars, refVars, postVars, traceVars, warnings, infos>>

\* variant: the temp folder path is persisted before the availability check
PreflightTmpDirFirst ==
    /\ pc = "preflight"
    /\ Call("isAvailable")
    /\ st_tmpDir' = "tmp"
    /\ Write("tmpDir")
    /\ \E available \in BOOLEAN :
        IF ~available
        THEN EndMain("preflight", Some(<<"Docker buildx is required">>))
        ELSE /\ pc' = "version"
             /\ UNCHANGED <<mainEnd, failedMsg>>
    /\ UNCHANGED <<inputsBuilder, startedTime, st_inputs, st_builder,
                   st_bakeDefinition, st_buildRefs>>
    /\ UNCHANGED <<execVars, refVars, postVars, execCalls, postArgs, warnings, infos>>

\* lines 75-80: the preflight check, then setTmpDir
Preflight ==
    /\ pc = "preflight"
    /\ Call("isAvailable")
    /\ \E available \in BOOLEAN :
        IF ~available
        THEN /\ EndMain("preflight", Some(<<"Docker buildx is required">>))
             /\ UNCHANGED <<st_tmpDir, writes>>
        ELSE /\ st_tmpDir' = "tmp"
             /\ Write("tmpDir")
             /\ pc' = "version"
             /\ UNCHANGED <<mainEnd, failedMsg>>
    /\ UNCHANGED <<inputsBuilder, startedTime, st_inputs, st_builder,
                   st_bakeDefinition, st_buildRefs>>
    /\ UNCHANGED <<execVars, refVars, postVars, execCalls, postArgs, warnings, infos>>

\* lines 82-84: toolkit.buildx.printVersion()
BuildxVersion ==
    /\ pc = "version"
    /\ Call("printVersion")
    /\ \E o \in Outcomes :
        IF o = "throw"
        THEN EndMain("version", Some(<<"printVersion failed">>))
        ELSE /\ pc' = "builder"
             /\ UNCHANGED <<mainEnd, failedMsg>>
    /\ UNCHANGED <<inputsBuilder, startedTime, persisted>>
    /\ UNCHANGED <<execVars, refVars, postVars, traceVars, warnings, infos>>

\* lines 86-90: toolkit.builder.inspect(inputs.builder), then setBuilder
BuilderInfo ==
    /\ pc = "builder"
    /\ Call("inspect")
    /\ \E o \in Outcomes, n \in Builders, d \in Drivers :
        IF o = "throw"
        THEN /\ EndMain("inspect", Some(<<"inspect failed">>))
             /\ UNCHANGED <<st_builder, writes>>
        ELSE /\ inputsBuilder # "" => n = inputsBuilder
             /\ st_builder' = Some([name |-> n, driver |-> d])
             /\ Write("builder")
             /\ pc' = "definition"
             /\ UNCHANGED <<mainEnd, failedMsg>>
    /\ UNCHANGED <<inputsBuilder, startedTime, st_inputs, st_tmpDir,
                   st_bakeDefinition, st_buildRefs>>
    /\ UNCHANGED <<execVars, refVars, postVars, execCalls, postArgs, warnings, infos>>

\* variant: the definition is obtained but not persisted
ParseDefinitionNotPersisted ==
    /\ pc = "definition"
    /\ Call("getDefinition")
    /\ \E o \in {"ok", "throw", "undefined"} :
        CASE o = "throw" ->
                EndMain("definition", Some(<<"getDefinition failed">>))
          [] o = "undefined" ->
                EndMain("definition", Some(<<"Bake definition not set">>))
          [] OTHER ->
                /\ pc' = "print"
                /\ UNCHANGED <<mainEnd, failedMsg>>
    /\ UNCHANGED <<inputsBuilder, startedTime, persisted, writes>>
    /\ UNCHANGED <<execVars, refVars, postVars, execCalls, postArgs, warnings, infos>>

\* lines 92-115: toolkit.buildxBake.getDefinition, then setBakeDefinition
ParseDefinition ==
    /\ pc = "definition"
    /\ Call("getDefinition")
    /\ \E o \in {"ok", "throw", "undefined"} :
        CASE o = "throw" ->
                /\ EndMain("definition", Some(<<"getDefinition failed">>))
                /\ UNCHANGED <<st_bakeDefinition, writes>>
          [] o = "undefined" ->
                /\ EndMain("definition", Some(<<"Bake definition not set">>))
                /\ UNCHANGED <<st_bakeDefinition, writes>>
          [] OTHER ->
                /\ st_bakeDefinition' = Some("definition")
                /\ Write("bakeDefinition")
                /\ pc' = "print"
                /\ UNCHANGED <<mainEnd, failedMsg>>
    /\ UNCHANGED <<inputsBuilder, startedTime, st_inputs, st_tmpDir, st_builder,
                   st_buildRefs>>
    /\ UNCHANGED <<execVars, refVars, postVars, execCalls, postArgs, warnings, infos>>

\* variant: the print pass ignores its exit code, as the execution pass does
PrintPassIgnoreReturnCode ==
    /\ pc = "print"
    /\ Call("print")
    /\ execCalls' = Append(execCalls, Invocation(BuildArgs \o <<"--print">>))
    /\ \E code \in ExitCodes :
        /\ printExit' = Some(code)
        /\ pc' = "exec"
        /\ UNCHANGED <<mainEnd, failedMsg>>
    /\ UNCHANGED <<inputsBuilder, startedTime, persisted, res, execObs, err>>
    /\ UNCHANGED <<refVars, postVars, writes, postArgs, warnings, infos>>

\* lines 117-130: the build command, run with --print; Exec.exec rejects on a
\* non-zero exit code
PrintPass ==
    /\ pc = "print"
    /\ Call("print")
    /\ execCalls' = Append(execCalls, Invocation(BuildArgs \o <<"--print">>))
    /\ \E code \in ExitCodes :
        /\ printExit' = Some(code)
        /\ IF code # 0
           THEN EndMain("print", Some(<<"print pass failed">>))
           ELSE /\ pc' = "exec"
                /\ UNCHANGED <<mainEnd, failedMsg>>
    /\ UNCHANGED <<inputsBuilder, startedTime, persisted, res, execObs, err>>
    /\ UNCHANGED <<refVars, postVars, writes, postArgs, warnings, infos>>

\* variant: the execution pass is given the dry-run flag too
ExecPassWithPrintFlag ==
    /\ pc = "exec"
    /\ Call("exec")
    /\ execCalls' = Append(execCalls, Invocation(BuildArgs \o <<"--print">>))
    /\ \E code \in ExitCodes, stderr \in Texts :
        LET r == [exitCode |-> code, stderr |-> stderr]
        IN  /\ res' = Some(r)
            /\ execObs' = Some([nonZero |-> code # 0, hasStderr |-> stderr # <<>>])
            /\ err' = IF IsFailure(r) THEN Some(ErrMessage(r.stderr)) ELSE Undefined
    /\ pc' = "metadata"
    /\ UNCHANGED <<inputsBuilder, startedTime, persisted, printExit>>
    /\ UNCHANGED <<refVars, postVars, mainEnd, failedMsg, writes, postArgs, warnings, infos>>

\* variant: a failed execution pass raises its error at once
ExecPassThrowsAtOnce ==
    /\ pc = "exec"
    /\ Call("exec")
    /\ execCalls' = Append(execCalls, Invocation(BuildArgs))
    /\ \E code \in ExitCodes, stderr \in Texts :
        LET r == [exitCode |-> code, stderr |-> stderr]
        IN  /\ res' = Some(r)
            /\ execObs' = Some([nonZero |-> code # 0, hasStderr |-> stderr # <<>>])
            /\ err' = IF IsFailure(r) THEN Some(ErrMessage(r.stderr)) ELSE Undefined
            /\ IF IsFailure(r)
               THEN EndMain("bake", Some(ErrMessage(r.stderr)))
               ELSE /\ pc' = "metadata"
                    /\ UNCHANGED <<mainEnd, failedMsg>>
    /\ UNCHANGED <<inputsBuilder, startedTime, persisted, printExit>>
    /\ UNCHANGED <<refVars, postVars, writes, postArgs, warnings, infos>>

\* lines 132-141: the execution pass with ignoreReturnCode, and its callback
ExecPass ==
    /\ pc = "exec"
    /\ Call("exec")
    /\ execCalls' = Append(execCalls, Invocation(BuildArgs))
    /\ \E code \in ExitCodes, stderr \in Texts :
        LET r == [exitCode |-> code, stderr |-> stderr]
        IN  /\ res' = Some(r)
            /\ execObs' = Some([nonZero |-> code # 0, hasStderr |-> stderr # <<>>])
            /\ err' = IF IsFailure(r) THEN Some(ErrMessage(r.stderr)) ELSE Undefined
    /\ pc' = "metadata"
    /\ UNCHANGED <<inputsBuilder, startedTime, persisted, printExit>>
    /\ UNCHANGED <<refVars, postVars, mainEnd, failedMsg, writes, postArgs, warnings, infos>>

\* lines 143-150: resolveMetadata; res is out of scope from here on
ResolveMetadata ==
    /\ pc = "metadata"
    /\ Call("resolveMetadata")
    /\ \E f \in MetaFiles :
        /\ metaFile' = f
        /\ infos' = IF Truthy(resolveMetadata(f)) THEN infos \cup {"metadata"} ELSE infos
    /\ res' = Undefined
    /\ pc' = "refs"
    /\ UNCHANGED <<inputsBuilder, startedTime, persisted, printExit, execObs, err>>
    /\ UNCHANGED <<refsDir, currentBuilder, refs, postVars, mainEnd, failedMsg, warnings>>
    /\ UNCHANGED traceVars

\* variant: setBuildRefs is called inside the loop over the references
RefsGroupSetInLoop(r) ==
    /\ refs' = r
    /\ st_buildRefs' = r[1]
    /\ writes' = writes \o [i \in 1..Len(r[1]) |-> "buildRefs"]
    /\ UNCHANGED warnings
    /\ pc' = "finish"

\* lines 153-160: what the Build references group does with buildRefs' result
RefsGroup(r) ==
    /\ refs' = r
    /\ IF Truthy(r)
       THEN /\ st_buildRefs' = r[1]
            /\ Write("buildRefs")
            /\ UNCHANGED warnings
       ELSE /\ warnings' = warnings \cup {"No build refs found"}
            /\ UNCHANGED <<st_buildRefs, writes>>
    /\ pc' = "finish"

\* variant: the metadata references are merged with the history store's records
BuildRefsMetaMerged ==
    /\ pc = "refs"
    /\ Call("resolveRefs")
    /\ IF Truthy(resolveRefs(metaFile))
       THEN /\ \E s \in Stores :
                RefsGroup(Some(resolveRefs(metaFile)[1]
                               \o KeysInOrder({i \in RefIds : s[i] # Undefined})))
       ELSE /\ pc' = "refs_builder"
            /\ UNCHANGED <<refs, st_buildRefs, warnings, writes>>
    /\ UNCHANGED <<inputsBuilder, startedTime, st_inputs, st_tmpDir, st_builder,
                   st_bakeDefinition>>
    /\ UNCHANGED <<execVars, metaFile, refsDir, currentBuilder>>
    /\ UNCHANGED <<postVars, mainEnd, failedMsg, execCalls, postArgs, infos>>

\* lines 151-152, 208-213: buildRefs, the metadata tier
BuildRefsMeta ==
    /\ pc = "refs"
    /\ Call("resolveRefs")
    /\ IF Truthy(resolveRefs(metaFile))
       THEN RefsGroup(resolveRefs(metaFile))
       ELSE /\ pc' = "refs_builder"
            /\ UNCHANGED <<refs, st_buildRefs, warnings, writes>>
    /\ UNCHANGED <<inputsBuilder, startedTime, st_inputs, st_tmpDir, st_builder,
                   st_bakeDefinition>>
    /\ UNCHANGED <<execVars, metaFile, refsDir, currentBuilder>>
    /\ UNCHANGED <<postVars, mainEnd, failedMsg, execCalls, postArgs, infos>>

\* variant: buildRefs inspects the builder whether or not the inputs name one
BuildRefsBuilderAlwaysInspects ==
    /\ pc = "refs_builder"
    /\ Call("inspect")
    /\ \E o \in Outcomes, n \in Builders :
        IF o = "throw"
        THEN /\ EndMain("refs", Some(<<"inspect failed">>))
             /\ UNCHANGED currentBuilder
        ELSE /\ currentBuilder' = IF inputsBuilder = "" THEN n ELSE inputsBuilder
             /\ pc' = "refs_scan"
             /\ UNCHANGED <<mainEnd, failedMsg>>
    /\ UNCHANGED <<inputsBuilder, startedTime, persisted, execVars>>
    /\ UNCHANGED <<metaFile, refsDir, refs, postVars, traceVars, warnings, infos>>

\* lines 214-218: buildRefs, the builder whose history is scanned
BuildRefsBuilder ==
    /\ pc = "refs_builder"
    /\ IF inputsBuilder = ""
       THEN /\ Call("inspect")
            /\ \E o \in Outcomes, n \in Builders :
                IF o = "throw"
                THEN /\ EndMain("refs", Some(<<"inspect failed">>))
                     /\ UNCHANGED currentBuilder
                ELSE /\ currentBuilder' = n
                     /\ pc' = "refs_scan"
                     /\ UNCHANGED <<mainEnd, failedMsg>>
       ELSE /\ currentBuilder' = inputsBuilder
            /\ pc' = "refs_scan"
            /\ UNCHANGED <<calls, mainEnd, failedMsg>>
    /\ UNCHANGED <<inputsBuilder, startedTime, persisted, execVars>>
    /\ UNCHANGED <<metaFile, refsDir, refs, postVars, traceVars, warnings, infos>>

\* lines 219-230: buildRefs, the history scan, and lines 153-160 on its result
BuildRefsScan ==
    /\ pc = "refs_scan"
    /\ Call("Buildx.refs")
    /\ \E s \in Stores :
        /\ refsDir' = s
        /\ RefsGroup(Some(KeysInOrder(BuildxRefs(s, RefsOpts(currentBuilder, startedTime)))))
    /\ UNCHANGED <<inputsBuilder, startedTime, st_inputs, st_tmpDir, st_builder,
                   st_bakeDefinition>>
    /\ UNCHANGED <<execVars, metaFile, currentBuilder>>
    /\ UNCHANGED <<postVars, mainEnd, failedMsg, execCalls, postArgs, infos>>

\* lines 162-165: the deferred error
Finish ==
    /\ pc = "finish"
    /\ IF Truthy(err)
       THEN EndMain("bake", err)
       ELSE EndMain("ok", Undefined)
    /\ UNCHANGED <<inputsBuilder, startedTime, persisted, execVars, refVars>>
    /\ UNCHANGED <<postVars, calls, traceVars, warnings, infos>>

\* ---------------------------------------------------- the process boundary
\* the main process has exited; the runner starts the post process, which sees
\* the persisted state and its own environment only
StartPost ==
    /\ pc = "main_done"
    /\ pc' = "post_start"
    /\ \E e \in NoSummaryEnv : noSummary' = e
    /\ inputsBuilder' = ""
    /\ startedTime' = 0
    /\ printExit' = Undefined
    /\ res' = Undefined
    /\ execObs' = Undefined
    /\ err' = Undefined
    /\ metaFile' = Undefined
    /\ refsDir' = EmptyStore
    /\ currentBuilder' = ""
    /\ refs' = Undefined
    /\ failedMsg' = Undefined
    /\ calls' = <<>>
    /\ writes' = <<>>
    /\ execCalls' = <<>>
    /\ warnings' = {}
    /\ infos' = {}
    /\ UNCHANGED <<persisted, mainEnd, postEnd, postArgs>>

\* -------------------------------------------------------------- post phase
EndPost(kind) ==
    /\ pc' = "post_done"
    /\ postEnd' = kind

mainVars == <<inputsBuilder, startedTime, execVars, refVars, mainEnd, failedMsg>>

\* variant: the summary is generated whether or not BuildRefs is empty
PostBeginNoLengthCheck ==
    /\ pc = "post_start"
    /\ pc' = "post_export"
    /\ UNCHANGED <<infos, postEnd>>
    /\ UNCHANGED <<persisted, mainVars, noSummary, calls, traceVars, warnings>>

\* variant: the driver of the persisted Builder is not looked at
PostBeginNoCloudCheck ==
    /\ pc = "post_start"
    /\ IF Len(st_buildRefs) > 0
       THEN CASE TruthyText(noSummary) /\ parseBool(noSummary[1]) = "throw" ->
                    /\ EndPost("parseBool")
                    /\ UNCHANGED infos
              [] TruthyText(noSummary) /\ parseBool(noSummary[1]) = "true" ->
                    /\ infos' = infos \cup {"Summary disabled"}
                    /\ pc' = "post_tmp"
                    /\ UNCHANGED postEnd
              [] OTHER ->
                    /\ pc' = "post_export"
                    /\ UNCHANGED <<infos, postEnd>>
       ELSE /\ pc' = "post_tmp"
            /\ UNCHANGED <<infos, postEnd>>
    /\ UNCHANGED <<persisted, mainVars, noSummary, calls, traceVars, warnings>>

\* lines 168-177: the three conditions under which no summary is generated
PostBegin ==
    /\ pc = "post_start"
    /\ IF Len(st_buildRefs) > 0
       THEN CASE TruthyText(noSummary) /\ parseBool(noSummary[1]) = "throw" ->
                    /\ EndPost("parseBool")
                    /\ UNCHANGED infos
              [] TruthyText(noSummary) /\ parseBool(noSummary[1]) = "true" ->
                    /\ infos' = infos \cup {"Summary disabled"}
                    /\ pc' = "post_tmp"
                    /\ UNCHANGED postEnd
              [] OTHER ->
                    IF Truthy(st_builder) /\ st_builder[1].driver = "cloud"
                    THEN /\ infos' = infos \cup
                                {"Summary is not yet supported with Docker Build Cloud"}
                         /\ pc' = "post_tmp"
                         /\ UNCHANGED postEnd
                    ELSE /\ pc' = "post_export"
                         /\ UNCHANGED <<infos, postEnd>>
       ELSE /\ pc' = "post_tmp"
            /\ UNCHANGED <<infos, postEnd>>
    /\ UNCHANGED <<persisted, mainVars, noSummary, calls, traceVars, warnings>>

\* variant: a failed export is not caught and ends the post phase
PostExportUncaught ==
    /\ pc = "post_export"
    /\ Call("export")
    /\ \E o \in Outcomes :
        /\ postArgs' = Append(postArgs,
                              SummaryCall("export", st_buildRefs, Undefined, Undefined, o))
        /\ IF o = "throw"
           THEN EndPost("export")
           ELSE /\ pc' = "post_upload"
                /\ UNCHANGED postEnd
    /\ UNCHANGED <<persisted, mainVars, noSummary, writes, execCalls, warnings, infos>>

\* variant: only the first persisted reference is exported
PostExportFirstRef ==
    /\ pc = "post_export"
    /\ Call("export")
    /\ \E o \in Outcomes :
        /\ postArgs' = Append(postArgs,
                              SummaryCall("export", <<st_buildRefs[1]>>, Undefined, Undefined, o))
        /\ IF o = "throw"
           THEN /\ warnings' = warnings \cup {"export failed"}
                /\ pc' = "post_tmp"
           ELSE /\ pc' = "post_upload"
                /\ UNCHANGED warnings
    /\ UNCHANGED <<persisted, mainVars, postVars, writes, execCalls, infos>>

\* lines 178-183 and the catch of 195-197: buildxHistory.export
PostExport ==
    /\ pc = "post_export"
    /\ Call("export")
    /\ \E o \in Outcomes :
        /\ postArgs' = Append(postArgs,
                              SummaryCall("export", st_buildRefs, Undefined, Undefined, o))
        /\ IF o = "throw"
           THEN /\ warnings' = warnings \cup {"export failed"}
                /\ pc' = "post_tmp"
           ELSE /\ pc' = "post_upload"
                /\ UNCHANGED warnings
    /\ UNCHANGED <<persisted, mainVars, postVars, writes, execCalls, infos>>

\* lines 184-188 and the catch of 195-197: GitHub.uploadArtifact
PostUpload ==
    /\ pc = "post_upload"
    /\ Call("uploadArtifact")
    /\ \E o \in Outcomes :
        /\ postArgs' = Append(postArgs,
                              SummaryCall("uploadArtifact", <<>>, Undefined, Undefined, o))
        /\ IF o = "throw"
           THEN /\ warnings' = warnings \cup {"upload failed"}
                /\ pc' = "post_tmp"
           ELSE /\ pc' = "post_summary"
                /\ UNCHANGED warnings
    /\ UNCHANGED <<persisted, mainVars, postVars, writes, execCalls, infos>>

\* lines 189-194 and the catch of 195-197: GitHub.writeBuildSummary
PostWriteSummary ==
    /\ pc = "post_summary"
    /\ Call("writeBuildSummary")
    /\ \E o \in Outcomes :
        /\ postArgs' = Append(postArgs,
                              SummaryCall("writeBuildSummary", <<>>, st_inputs,
                                          st_bakeDefinition, o))
        /\ warnings' = IF o = "throw" THEN warnings \cup {"summary failed"} ELSE warnings
        /\ pc' = "post_tmp"
    /\ UNCHANGED <<persisted, mainVars, postVars, writes, execCalls, infos>>

\* variant: the temp folder is removed whether or not its path was persisted
PostRemoveTmpAlways ==
    /\ pc = "post_tmp"
    /\ Call("rmSync")
    /\ \E o \in Outcomes :
        EndPost(IF o = "throw" THEN "rmSync" ELSE "ok")
    /\ UNCHANGED <<persisted, mainVars, noSummary, traceVars, warnings, infos>>

\* lines 200-205: the temp folder is removed when its path was persisted
PostRemoveTmp ==
    /\ pc = "post_tmp"
    /\ IF Len(st_tmpDir) > 0
       THEN /\ Call("rmSync")
            /\ \E o \in Outcomes :
                EndPost(IF o = "throw" THEN "rmSync" ELSE "ok")
       ELSE /\ EndPost("ok")
            /\ UNCHANGED calls
    /\ UNCHANGED <<persisted, mainVars, noSummary, traceVars, warnings, infos>>

\* ------------------------------------------------------------ specification
Next ==
    \/ MainStart
    \/ Preflight
    \/ BuildxVersion
    \/ BuilderInfo
    \/ ParseDefinition
    \/ PrintPass
    \/ ExecPass
    \/ ResolveMetadata
    \/ BuildRefsMeta
    \/ BuildRefsBuilder
    \/ BuildRefsScan
    \/ Finish
    \/ StartPost
    \/ PostBegin
    \/ PostExport
    \/ PostUpload
    \/ PostWriteSummary
    \/ PostRemoveTmp

Spec == Init /\ [][Next]_vars

\* ------------------------------------------------------------------ claims
Range(s) == {s[i] : i \in 1..Len(s)}
Count(s, x) == Cardinality({i \in 1..Len(s) : s[i] = x})
LastCall == IF calls = <<>> THEN "" ELSE calls[Len(calls)]
ExecFailed == Truthy(execObs) /\ execObs[1].nonZero /\ execObs[1].hasStderr
PostPcs == {"post_start", "post_export", "post_upload", "post_summary", "post_tmp",
            "post_done"}
SummaryCalls == {"export", "uploadArtifact", "writeBuildSummary"}
\* the ends of the main phase that come before setTmpDir
EndsBeforeTmpDir == {"inputs", "preflight"}

\* C1: the execution pass is declared failed exactly when its exit code is non-zero
\* and its stderr is non-empty; a non-zero exit with empty stderr, or stderr with
\* exit code zero, leaves the deferred error unset and the main phase does not end
\* with the execution-failure error.
C1_FailureIffNonZeroAndStderr ==
    /\ pc = "metadata" =>
          execObs = Some([nonZero |-> res[1].exitCode # 0,
                          hasStderr |-> res[1].stderr # <<>>])
    /\ Truthy(execObs) => (Truthy(err) <=> ExecFailed)
    /\ (pc = "main_done" /\ Truthy(execObs) /\ ~ExecFailed) => mainEnd # "bake"

C1_Witness ==
    /\ pc = "main_done"
    /\ execObs = Some([nonZero |-> TRUE, hasStderr |-> FALSE])
    /\ err = Undefined
    /\ mainEnd = "ok"

\* C2: when the execution pass exits non-zero with non-empty stderr, metadata and
\* build-reference resolution are attempted and the main phase then ends with the
\* error derived from stderr, raised as its last step.
C2_DeferredErrorSurfaced ==
    (pc = "main_done" /\ ExecFailed) =>
        /\ mainEnd = "bake"
        /\ failedMsg = err
        /\ "resolveMetadata" \in Range(calls)
        /\ "resolveRefs" \in Range(calls)

\* the last line of s that holds a character other than white space, trimmed
LastNonEmptyLine(s) ==
    LET ink == {i \in 1..Len(s) : ~IsSpace(s[i])}
        last == Max(ink)
        before == {i \in 1..last : s[i] = "\n"}
        after == {i \in last..Len(s) : s[i] = "\n"}
        from == IF before = {} THEN 1 ELSE Max(before) + 1
        to == IF after = {} THEN Len(s) ELSE Min(after) - 1
    IN  Trim(SubSeq(s, from, to))

HasNonEmptyLine(s) == \E i \in 1..Len(s) : ~IsSpace(s[i])

\* C3: on a declared failure the message carries the trimmed last non-empty line of
\* stderr, and "unknown error" when stderr holds no non-empty line.
C3_MessageLastLineOrUnknown ==
    (pc = "metadata" /\ Truthy(err)) =>
        err[1] = IF HasNonEmptyLine(res[1].stderr)
                 THEN LastNonEmptyLine(res[1].stderr)
                 ELSE UnknownError

\* C4: a print pass that exits non-zero ends the main phase there: no execution
\* pass, no metadata or build-reference resolution, no BuildRefs persisted.
C4_PrintFailureAborts ==
    /\ (Truthy(printExit) /\ printExit[1] # 0) =>
          /\ pc = "main_done"
          /\ mainEnd = "print"
          /\ LastCall = "print"
          /\ Range(calls) \cap {"exec", "resolveMetadata", "resolveRefs", "Buildx.refs"} = {}
          /\ refs = Undefined
          /\ st_buildRefs = <<>>
    /\ mainEnd = "print" => st_buildRefs = <<>>

C4_Witness ==
    /\ pc = "main_done"
    /\ printExit = Some(1)
    /\ mainEnd = "print"
    /\ Truthy(st_bakeDefinition)

\* C5: once the preflight check has passed the temp-directory path is persisted, so
\* a main phase that ends at the print pass or at any later step leaves it to the
\* post phase, which removes the directory when no BuildRefs were stored.
C5_TmpDirPersistedEarly ==
    /\ (pc \notin {"main_start", "preflight"} /\ mainEnd \notin EndsBeforeTmpDir) =>
          st_tmpDir # ""
    /\ (pc = "post_done" /\ mainEnd \notin EndsBeforeTmpDir /\ st_buildRefs = <<>>) =>
          LastCall = "rmSync"

C5_Witness ==
    /\ pc = "post_done"
    /\ mainEnd = "print"
    /\ st_buildRefs = <<>>
    /\ st_tmpDir # ""
    /\ calls = <<"rmSync">>

\* C6: when the metadata embeds references, buildRefs returns exactly those, in
\* order and with duplicates, and the main phase persists them; the builder is not
\* inspected again and the history store is not read.
C6_MetadataRefsVerbatim ==
    (Truthy(refs) /\ Truthy(metaFile) /\ metaFile[1] # <<>>) =>
        /\ refs[1] = metaFile[1]
        /\ st_buildRefs = metaFile[1]
        /\ "Buildx.refs" \notin Range(calls)
        /\ Count(calls, "inspect") = 1
        /\ refsDir = EmptyStore

C6_Witness ==
    /\ pc = "main_done"
    /\ metaFile = Some(<<2, 1>>)
    /\ refs = Some(<<2, 1>>)
    /\ st_buildRefs = <<2, 1>>

C6_WitnessDuplicates ==
    /\ pc = "main_done"
    /\ metaFile = Some(<<1, 1>>)
    /\ st_buildRefs = <<1, 1>>

C8_EmptyRefsWarned ==
    (Truthy(refs) /\ refs[1] = <<>>) =>
        /\ "No build refs found" \in warnings
        /\ pc = "main_done" => mainEnd \in {"ok", "bake"}

\* C9: with empty persisted BuildRefs the post phase makes no export, upload or
\* summary call, and still removes the temp directory when its path was persisted.
C9_EmptyRefsNoSummary ==
    (pc \in PostPcs /\ st_buildRefs = <<>>) =>
        /\ Range(calls) \cap SummaryCalls = {}
        /\ (pc = "post_done" /\ st_tmpDir # "") => calls = <<"rmSync">>
        /\ (pc = "post_done" /\ st_tmpDir = "") => calls = <<>>

C9_Witness ==
    /\ pc = "post_done"
    /\ mainEnd = "ok"
    /\ st_buildRefs = <<>>
    /\ st_tmpDir # ""
    /\ calls = <<"rmSync">>

\* C10: in every post phase that finds a persisted temp-directory path the removal
\* is attempted, as the last step, whatever happened before it.
C10_CleanupUnconditional ==
    (pc = "post_done" /\ st_tmpDir # "") => LastCall = "rmSync"

\* the calls of the summary chain that failed
FailedSummaryCalls == {i \in 1..Len(postArgs) : postArgs[i].outcome = "throw"}
FailureWarning(name) ==
    CASE name = "export" -> "export failed"
      [] name = "uploadArtifact" -> "upload failed"
      [] OTHER -> "summary failed"

\* C11: a failure of the export, the upload or the summary publish is reported as a
\* warning, is the last call of the chain (no upload after a failed export, no
\* summary after a failed upload), and does not end the post phase: the post phase
\* goes on to the temp-directory step and ends in error only if the removal fails.
C11_SummaryFailureIsWarning ==
    pc \in PostPcs =>
        \A i \in FailedSummaryCalls :
            /\ i = Len(postArgs)
            /\ FailureWarning(postArgs[i].call) \in warnings
            /\ pc \in {"post_tmp", "post_done"}
            /\ postEnd \in {"running", "ok", "rmSync"}
            /\ pc = "post_done" =>
                  /\ postEnd = "rmSync" => LastCall = "rmSync"
                  /\ st_tmpDir # "" => LastCall = "rmSync"

C11_Witness ==
    /\ pc = "post_done"
    /\ postEnd = "ok"
    /\ calls = <<"export", "rmSync">>
    /\ warnings = {"export failed"}

CloudBuilder == Truthy(st_builder) /\ st_builder[1].driver = "cloud"
CloudMessage == "Summary is not yet supported with Docker Build Cloud"
\* the disable flag neither disables the summary nor fails to parse
FlagLetsSummaryRun == ~(TruthyText(noSummary) /\ parseBool(noSummary[1]) # "false")

\* C12 as stated: every post phase with a cloud Builder makes no summary call and
\* reports the skip with the informational message, never with a warning.
C12_CloudSkipAlwaysReported ==
    (pc = "post_done" /\ CloudBuilder) =>
        /\ Range(calls) \cap SummaryCalls = {}
        /\ CloudMessage \in infos
        /\ warnings = {}

\* C12 as amended: every post phase with a cloud Builder makes no summary call and
\* logs no warning; the informational message is logged exactly when BuildRefs is
\* non-empty and the disable flag is unset, empty or parses to false.
C12_CloudNoSummary ==
    (pc \in PostPcs /\ CloudBuilder) =>
        /\ Range(calls) \cap SummaryCalls = {}
        /\ warnings = {}
        /\ pc \notin {"post_export", "post_upload", "post_summary"}
        /\ pc \in {"post_tmp", "post_done"} =>
              (CloudMessage \in infos <=> (st_buildRefs # <<>> /\ FlagLetsSummaryRun))

C12_Witness ==
    /\ pc = "post_done"
    /\ CloudBuilder
    /\ st_buildRefs # <<>>
    /\ noSummary = Some("false")
    /\ infos = {CloudMessage}
    /\ calls = <<"rmSync">>

Fields == {"inputs", "tmpDir", "builder", "bakeDefinition", "buildRefs"}

\* in the main process a field is written once, in the step that obtains its value
WrittenWhenAvailable ==
    /\ \A f \in Fields : Count(writes, f) <= 1
    /\ pc \in PostPcs => writes = <<>>
    /\ pc \notin PostPcs =>
          /\ "inputs" \in Range(writes) <=> (pc # "main_start" /\ mainEnd # "inputs")
          /\ "tmpDir" \in Range(writes) <=> (pc = "version" \/ "printVersion" \in Range(calls))
          /\ "builder" \in Range(writes) <=>
                (pc = "definition" \/ "getDefinition" \in Range(calls))
          /\ "bakeDefinition" \in Range(writes) <=> (pc = "print" \/ "print" \in Range(calls))
          /\ "buildRefs" \in Range(writes) <=> Truthy(refs)

\* a step taken by the post process leaves the persisted fields alone
PostReadsOnly == pc \in PostPcs => (persisted' = persisted /\ writes' = writes)

\* C13: every persisted field is written at most once by the main phase, in the
\* step that obtains its value, and no step of the post phase writes one.
C13_WriteOnceReadOnly ==
    /\ []WrittenWhenAvailable
    /\ [][PostReadsOnly]_vars

C13_Witness ==
    /\ pc = "main_done"
    /\ mainEnd = "ok"
    /\ writes = <<"inputs", "tmpDir", "builder", "bakeDefinition", "buildRefs">>
    /\ Len(st_buildRefs) = 2

\* C14 as stated: the main phase never inspects the builder more than once, and a
\* main phase that reaches its end past the Builder-info step inspected it once.
C14_InspectedOnce ==
    pc \notin PostPcs =>
        /\ Count(calls, "inspect") <= 1
        /\ "getDefinition" \in Range(calls) => Count(calls, "inspect") = 1

\* C14 as amended: the Builder-info step inspects the builder once and its result is
\* persisted at most once; the only other inspection is made inside build-reference
\* resolution, after resolveRefs found no metadata references and only when the
\* inputs name no builder, and it happens on every such run that reaches the scan.
C14_ReinspectedOnlyInFallback ==
    pc \notin PostPcs =>
        /\ Count(calls, "inspect") <= 2
        /\ Count(writes, "builder") <= 1
        /\ "getDefinition" \in Range(calls) => calls[3] = "inspect"
        /\ Count(calls, "inspect") = 2 =>
              /\ inputsBuilder = ""
              /\ ~Truthy(resolveRefs(metaFile))
              /\ \E i \in 1..Len(calls) :
                    /\ calls[i] = "resolveRefs"
                    /\ i < Len(calls)
                    /\ calls[i + 1] = "inspect"
        /\ "Buildx.refs" \in Range(calls) =>
              (Count(calls, "inspect") = 2 <=> inputsBuilder = "")

C14_Witness ==
    /\ pc = "main_done"
    /\ mainEnd = "ok"
    /\ inputsBuilder = ""
    /\ Count(calls, "inspect") = 2
    /\ LastCall = "Buildx.refs"

\* C15: a main phase stopped by the preflight check is marked failed, has made no
\* call but the availability check (no inspection, definition, print, execution or
\* reference resolution), and has persisted Inputs only: temp-directory path,
\* Builder, BakeDefinition and BuildRefs are at their defaults, also in the post phase.
C15_PreflightFailureStopsMain ==
    mainEnd = "preflight" =>
        /\ Truthy(st_inputs)
        /\ st_tmpDir = ""
        /\ st_builder = Undefined
        /\ st_bakeDefinition = Undefined
        /\ st_buildRefs = <<>>
        /\ pc = "main_done" =>
              /\ failedMsg = Some(<<"Docker buildx is required">>)
              /\ calls = <<"isAvailable">>
              /\ execCalls = <<>>
              /\ writes = <<"inputs">>
        /\ pc \in PostPcs => Range(calls) \cap (SummaryCalls \cup {"rmSync"}) = {}

C15_Witness ==
    /\ pc = "main_done"
    /\ mainEnd = "preflight"
    /\ calls = <<"isAvailable">>

AllDefaults ==
    /\ st_inputs = Undefined
    /\ st_tmpDir = ""
    /\ st_builder = Undefined
    /\ st_bakeDefinition = Undefined
    /\ st_buildRefs = <<>>

\* C16: a post phase that finds every persisted field at its default makes no
\* export, upload, summary or removal call, logs nothing and ends without error.
C16_DefaultsSkipEverything ==
    (pc \in PostPcs /\ AllDefaults) =>
        /\ calls = <<>>
        /\ postArgs = <<>>
        /\ warnings = {}
        /\ infos = {}
        /\ postEnd \in {"running", "ok"}
        /\ pc \in {"post_start", "post_tmp", "post_done"}
        /\ pc = "post_done" => postEnd = "ok"

C16_Witness ==
    /\ pc = "post_done"
    /\ AllDefaults
    /\ postEnd = "ok"

SummaryChain == <<"export", "uploadArtifact", "writeBuildSummary">>
IsSummaryCall(c) == c \in SummaryCalls
AllSucceeded == \A i \in 1..Len(postArgs) : postArgs[i].outcome = "ok"

\* C17: the post phase generates a summary exactly when BuildRefs is non-empty, the
\* flag does not disable it and the driver is not cloud; its calls are then a prefix
\* of export, upload, publish in that order, each made once and only after the call
\* before it succeeded; export is given exactly the persisted BuildRefs and publish
\* the persisted Inputs and BakeDefinition; when all succeed all three are made.
C17_SummaryChainInOrder ==
    pc \in PostPcs =>
        LET sc == SelectSeq(calls, IsSummaryCall) IN
        /\ Len(sc) <= 3
        /\ \A i \in 1..Len(sc) : sc[i] = SummaryChain[i]
        /\ Len(postArgs) = Len(sc)
        /\ \A i \in 1..Len(postArgs) :
              /\ postArgs[i].call = sc[i]
              /\ i > 1 => postArgs[i - 1].outcome = "ok"
              /\ postArgs[i].call = "export" => postArgs[i].refs = st_buildRefs
              /\ postArgs[i].call = "writeBuildSummary" =>
                    /\ postArgs[i].inputs = st_inputs
                    /\ postArgs[i].bakeDefinition = st_bakeDefinition
        /\ calls \in {sc, sc \o <<"rmSync">>}
        /\ pc \in {"post_tmp", "post_done"} =>
              /\ "export" \in Range(calls) <=>
                    (st_buildRefs # <<>> /\ FlagLetsSummaryRun /\ ~CloudBuilder)
              /\ ("export" \in Range(calls) /\ AllSucceeded) => Len(sc) = 3

C17_Witness ==
    /\ pc = "post_done"
    /\ calls = SummaryChain \o <<"rmSync">>
    /\ Len(st_buildRefs) = 2
    /\ postArgs[1].refs = st_buildRefs
    /\ warnings = {}

PrintFlag == <<"--print">>

\* C18: the main phase invokes the build command at most twice, the second call
\* made only after the first returned exit code zero: first with the build arguments
\* followed by --print, then with the same arguments without the flag, in the same
\* working directory and with the same environment.
C18_TwoPassesSameArguments ==
    pc \notin PostPcs =>
        /\ Len(execCalls) <= 2
        /\ Len(execCalls) = Count(calls, "print") + Count(calls, "exec")
        /\ Count(calls, "print") <= 1
        /\ Count(calls, "exec") <= 1
        /\ Len(execCalls) >= 1 =>
              /\ execCalls[1] = Invocation(BuildArgs \o PrintFlag)
              /\ Truthy(printExit)
        /\ Len(execCalls) = 2 =>
              /\ printExit = Some(0)
              /\ execCalls[2].args \o PrintFlag = execCalls[1].args
              /\ execCalls[2].cwd = execCalls[1].cwd
              /\ execCalls[2].env = execCalls[1].env
              /\ \E i \in 1..Len(calls) :
                    /\ calls[i] = "print"
                    /\ calls[i + 1] = "exec"
        /\ (printExit = Some(0) /\ pc # "exec") => Len(execCalls) = 2
        /\ (Truthy(printExit) /\ printExit # Some(0)) =>
              (Len(execCalls) = 1 /\ mainEnd = "print")

C18_Witness ==
    /\ pc = "main_done"
    /\ mainEnd = "ok"
    /\ execCalls = <<Invocation(BuildArgs \o PrintFlag), Invocation(BuildArgs)>>

FieldOrder == <<"inputs", "tmpDir", "builder", "bakeDefinition", "buildRefs">>

\* C19: in the main phase the fields written so far are a prefix of Inputs,
\* temp-directory path, Builder, BakeDefinition, BuildRefs; a persisted field with a
\* value has every field before it persisted, so non-empty BuildRefs in the post
\* phase come with Inputs, temp-directory path, Builder and BakeDefinition; and the
\* execution pass is invoked only after BakeDefinition was persisted.
C19_PersistedPrefix ==
    /\ pc \notin PostPcs =>
          /\ Len(writes) <= Len(FieldOrder)
          /\ writes = SubSeq(FieldOrder, 1, Len(writes))
          /\ "exec" \in Range(calls) =>
                ("bakeDefinition" \in Range(writes) /\ Truthy(st_bakeDefinition))
    /\ st_buildRefs # <<>> => Truthy(st_bakeDefinition)
    /\ Truthy(st_bakeDefinition) => Truthy(st_builder)
    /\ Truthy(st_builder) => st_tmpDir # ""
    /\ st_tmpDir # "" => Truthy(st_inputs)

C19_Witness ==
    /\ pc = "post_export"
    /\ Len(st_buildRefs) = 2
    /\ Truthy(st_inputs)
    /\ Truthy(st_bakeDefinition)

\* C20: when the main phase ends with the error of a failed execution pass, the
\* references resolved after that pass were persisted before the error was raised;
\* the post phase that follows, when BuildRefs is non-empty, the flag does not
\* disable the summary and the driver is not cloud, exports exactly those
\* references and, when no call of the chain fails, uploads and publishes too.
C20_RefsPersistedBeforeDeferredError ==
    /\ (pc \in {"finish", "main_done"} /\ Truthy(err) /\ mainEnd \in {"running", "bake"}) =>
          /\ ExecFailed
          /\ Truthy(refs)
          /\ st_buildRefs = refs[1]
          /\ LastCall \in {"resolveRefs", "Buildx.refs"}
          /\ writes[Len(writes)] = "buildRefs"
    /\ (pc = "main_done" /\ mainEnd = "bake") => (Truthy(err) /\ failedMsg = err)
    /\ (pc = "post_done" /\ mainEnd = "bake" /\ st_buildRefs # <<>>
            /\ FlagLetsSummaryRun /\ ~CloudBuilder) =>
          /\ Len(postArgs) >= 1
          /\ postArgs[1].call = "export"
          /\ postArgs[1].refs = st_buildRefs
          /\ AllSucceeded => SelectSeq(calls, IsSummaryCall) = SummaryChain

C20_Witness ==
    /\ pc = "post_done"
    /\ mainEnd = "bake"
    /\ Len(st_buildRefs) = 2
    /\ calls = SummaryChain \o <<"rmSync">>
    /\ postArgs[1].refs = st_buildRefs
    /\ warnings = {}

====
